---- MODULE Spec2Model ----
(***************************************************************************)
(* Model of sjtu::priority_queue (src/src/priority_queue.hpp): a leftist   *)
(* heap of Node objects on the free store, with a comparator that may      *)
(* throw and an allocator that may fail.                                   *)
(***************************************************************************)
EXTENDS Integers, FiniteSets, Sequences, TLC

\* ------------------------------------------------------------------ bounds
\* Number of addresses of the free store.
MaxNodes == 5
\* Elements are the integers 1..MaxKey.
MaxKey == 2
\* A run on one container makes at most MaxCalls calls.
MaxCalls == 6
\* A run on two containers makes at most MaxCallsTwo calls.
MaxCallsTwo == 5

Addr == 1..MaxNodes
Null == 0
Keys == 1..MaxKey
\* The container objects of the program.
Queues == {"a", "b"}
\* FailAt = k: the k-th call of the fallible operation throws; 0: none does.
FailAt == 0..MaxNodes

VARIABLES
    root,         \* root[q]: Node *root of container q
    queue_size,   \* queue_size[q]: size_t queue_size of container q
    node,         \* node[n]: the Node object at address n (data, left, right, dist)
    alloc,        \* addresses obtained from new and not yet given to delete
    calls_left,   \* number of calls the run may still make
    live,         \* containers constructed and not yet destroyed
    dangling,     \* containers whose root holds the address of released storage
    ub,           \* the execution has had undefined behaviour
    last          \* the last call and how it ended

vars == <<root, queue_size, node, alloc, calls_left, live, dangling, ub, last>>

\* Storage not holding a Node object.
Freed == [data |-> 0, left |-> Null, right |-> Null, dist |-> 0]

\* Node(const T &value)
Node(value) == [data |-> value, left |-> Null, right |-> Null, dist |-> 0]

\* operator new: the address of unused storage (the lowest one).
NewAddr(al) == CHOOSE n \in Addr \ al : \A m \in Addr \ al : n <= m

\* A comparator called with its arguments exchanged.
cmpExchanged(x, y) == y < x

\* std::less<T>
cmp(x, y) == x < y

getDist(nd, n) == IF n # Null THEN nd[n].dist ELSE -1

\* The record a call leaves in last: the operation, the container it was
\* called on, the other container, how it ended, the number of comparator
\* calls it made, and the element pushed (push) or returned (top).
Call(op, q, o, res, calls, val) ==
    [op |-> op, q |-> q, o |-> o, res |-> res, calls |-> calls, val |-> val]

\* A call on q begins: q is alive and the run has calls left.
Begin(q) ==
    /\ ~ub /\ calls_left > 0 /\ q \in live
    /\ calls_left' = calls_left - 1

\* ------------------------------------------------------------ mergeNodes
\* A frame that leaves dist as it is after its recursive call.
CommitStaleDist(r, w) ==
    LET n1 == [r.node EXCEPT ![w].right = r.ret]
        n2 == IF getDist(n1, n1[w].left) < getDist(n1, n1[w].right)
              THEN [n1 EXCEPT ![w].left = n1[w].right, ![w].right = n1[w].left]
              ELSE n1
    IN  [r EXCEPT !.node = n2, !.ret = w]

\* A frame that leaves the children as they are after its recursive call.
CommitNoSwap(r, w) ==
    LET n1 == [r.node EXCEPT ![w].right = r.ret]
        n3 == [n1 EXCEPT ![w].dist = getDist(n1, n1[w].right) + 1]
    IN  [r EXCEPT !.node = n3, !.ret = w]

\* One frame after its recursive call r has returned normally: the winner w
\* gets the merged tree as right child, then the swap, then dist.
Commit(r, w) ==
    LET n1 == [r.node EXCEPT ![w].right = r.ret]
        n2 == IF getDist(n1, n1[w].left) < getDist(n1, n1[w].right)
              THEN [n1 EXCEPT ![w].left = n1[w].right, ![w].right = n1[w].left]
              ELSE n1
        n3 == [n2 EXCEPT ![w].dist = getDist(n2, n2[w].right) + 1]
    IN  [r EXCEPT !.node = n3, !.ret = w]

\* What a frame that writes early does to the winner w before its recursive
\* call: the right child, the dist, the swap of the children, or all three.
EarlyWrite(kind, nd, w, l) ==
    IF kind = "right" THEN [nd EXCEPT ![w].right = l]
    ELSE IF kind = "dist" THEN [nd EXCEPT ![w].dist = @ + 1]
    ELSE IF kind = "swap"
    THEN [nd EXCEPT ![w].left = nd[w].right, ![w].right = nd[w].left]
    ELSE [nd EXCEPT ![w].left = l, ![w].right = nd[w].left, ![w].dist = @ + 1]

\* mergeNodes with frames that write the winner before the recursive call and
\* settle it after the call has returned.
RECURSIVE mergeNodesEarly(_, _, _, _, _, _)
mergeNodesEarly(kind, nd, a, b, calls, failAt) ==
    IF a = Null THEN [node |-> nd, ret |-> b, thrown |-> FALSE, calls |-> calls]
    ELSE IF b = Null THEN [node |-> nd, ret |-> a, thrown |-> FALSE, calls |-> calls]
    ELSE IF calls + 1 = failAt
    THEN [node |-> nd, ret |-> Null, thrown |-> TRUE, calls |-> calls + 1]
    ELSE IF ~cmp(nd[a].data, nd[b].data)
    THEN LET r == mergeNodesEarly(kind, EarlyWrite(kind, nd, a, b), nd[a].right, b,
                                  calls + 1, failAt)
         IN  IF r.thrown THEN r
             ELSE Commit([r EXCEPT !.node = [@ EXCEPT ![a] = nd[a]]], a)
    ELSE LET r == mergeNodesEarly(kind, EarlyWrite(kind, nd, b, a), a, nd[b].right,
                                  calls + 1, failAt)
         IN  IF r.thrown THEN r
             ELSE Commit([r EXCEPT !.node = [@ EXCEPT ![b] = nd[b]]], b)

mergeNodesEarlyRight(nd, a, b, calls, failAt) ==
    mergeNodesEarly("right", nd, a, b, calls, failAt)

mergeNodesEarlyDist(nd, a, b, calls, failAt) ==
    mergeNodesEarly("dist", nd, a, b, calls, failAt)

mergeNodesEarlySwap(nd, a, b, calls, failAt) ==
    mergeNodesEarly("swap", nd, a, b, calls, failAt)

mergeNodesEarlyAll(nd, a, b, calls, failAt) ==
    mergeNodesEarly("all", nd, a, b, calls, failAt)

\* mergeNodes that calls the comparator twice in each frame.
RECURSIVE mergeNodesCompareTwice(_, _, _, _, _)
mergeNodesCompareTwice(nd, a, b, calls, failAt) ==
    IF a = Null THEN [node |-> nd, ret |-> b, thrown |-> FALSE, calls |-> calls]
    ELSE IF b = Null THEN [node |-> nd, ret |-> a, thrown |-> FALSE, calls |-> calls]
    ELSE IF calls + 1 = failAt
    THEN [node |-> nd, ret |-> Null, thrown |-> TRUE, calls |-> calls + 1]
    ELSE IF calls + 2 = failAt
    THEN [node |-> nd, ret |-> Null, thrown |-> TRUE, calls |-> calls + 2]
    ELSE IF ~cmp(nd[a].data, nd[b].data)
    THEN LET r == mergeNodesCompareTwice(nd, nd[a].right, b, calls + 2, failAt)
         IN  IF r.thrown THEN r ELSE Commit(r, a)
    ELSE LET r == mergeNodesCompareTwice(nd, a, nd[b].right, calls + 2, failAt)
         IN  IF r.thrown THEN r ELSE Commit(r, b)

\* mergeNodes in which the second operand wins when neither is less.
RECURSIVE mergeNodesTieSecond(_, _, _, _, _)
mergeNodesTieSecond(nd, a, b, calls, failAt) ==
    IF a = Null THEN [node |-> nd, ret |-> b, thrown |-> FALSE, calls |-> calls]
    ELSE IF b = Null THEN [node |-> nd, ret |-> a, thrown |-> FALSE, calls |-> calls]
    ELSE IF calls + 1 = failAt
    THEN [node |-> nd, ret |-> Null, thrown |-> TRUE, calls |-> calls + 1]
    ELSE IF cmp(nd[b].data, nd[a].data)
    THEN LET r == mergeNodesTieSecond(nd, nd[a].right, b, calls + 1, failAt)
         IN  IF r.thrown THEN r ELSE Commit(r, a)
    ELSE LET r == mergeNodesTieSecond(nd, a, nd[b].right, calls + 1, failAt)
         IN  IF r.thrown THEN r ELSE Commit(r, b)

\* mergeNodes that makes its first operand the root whatever the comparator
\* says.
RECURSIVE mergeNodesFirstWins(_, _, _, _, _)
mergeNodesFirstWins(nd, a, b, calls, failAt) ==
    IF a = Null THEN [node |-> nd, ret |-> b, thrown |-> FALSE, calls |-> calls]
    ELSE IF b = Null THEN [node |-> nd, ret |-> a, thrown |-> FALSE, calls |-> calls]
    ELSE IF calls + 1 = failAt
    THEN [node |-> nd, ret |-> Null, thrown |-> TRUE, calls |-> calls + 1]
    ELSE LET r == mergeNodesFirstWins(nd, nd[a].right, b, calls + 1, failAt)
         IN  IF r.thrown THEN r ELSE Commit(r, a)

\* mergeNodes(a, b) on the store nd, after `calls` comparator calls of the
\* operation; the failAt-th comparator call throws.  The result holds the
\* store when the call returns or throws, the returned root, and the count.
RECURSIVE mergeNodes(_, _, _, _, _)
mergeNodes(nd, a, b, calls, failAt) ==
    IF a = Null THEN [node |-> nd, ret |-> b, thrown |-> FALSE, calls |-> calls]
    ELSE IF b = Null THEN [node |-> nd, ret |-> a, thrown |-> FALSE, calls |-> calls]
    ELSE IF calls + 1 = failAt
    THEN [node |-> nd, ret |-> Null, thrown |-> TRUE, calls |-> calls + 1]
    ELSE IF ~cmp(nd[a].data, nd[b].data)
    THEN LET r == mergeNodes(nd, nd[a].right, b, calls + 1, failAt)
         IN  IF r.thrown THEN r ELSE Commit(r, a)
    ELSE LET r == mergeNodes(nd, a, nd[b].right, calls + 1, failAt)
         IN  IF r.thrown THEN r ELSE Commit(r, b)

\* ------------------------------------------------- copyTree, deleteTree
\* copyTree(other) on store nd and allocation set al, after cnt allocations
\* of the operation; the failAt-th allocation throws.
RECURSIVE copyTree(_, _, _, _, _)
copyTree(nd, al, other, cnt, failAt) ==
    IF other = Null
    THEN [node |-> nd, alloc |-> al, ret |-> Null, thrown |-> FALSE, cnt |-> cnt]
    ELSE IF cnt + 1 = failAt
    THEN [node |-> nd, alloc |-> al, ret |-> Null, thrown |-> TRUE, cnt |-> cnt + 1]
    ELSE LET newNode == NewAddr(al)
             l == copyTree([nd EXCEPT ![newNode] = Node(nd[other].data)],
                           al \cup {newNode}, nd[other].left, cnt + 1, failAt)
         IN  IF l.thrown THEN l
             ELSE LET r == copyTree([l.node EXCEPT ![newNode].left = l.ret],
                                    l.alloc, nd[other].right, l.cnt, failAt)
                  IN  IF r.thrown THEN r
                      ELSE [r EXCEPT !.node = [r.node EXCEPT
                                                  ![newNode].right = r.ret,
                                                  ![newNode].dist = nd[other].dist],
                                     !.ret = newNode]

\* deleteTree(n): the store and allocation set after releasing the subtree.
RECURSIVE deleteTree(_, _, _)
deleteTree(nd, al, n) ==
    IF n = Null THEN [node |-> nd, alloc |-> al]
    ELSE LET l == deleteTree(nd, al, nd[n].left)
             r == deleteTree(l.node, l.alloc, nd[n].right)
         IN  [node |-> [r.node EXCEPT ![n] = Freed], alloc |-> r.alloc \ {n}]

\* The nodes of the subtree at n.
RECURSIVE Nodes(_, _)
Nodes(nd, n) ==
    IF n = Null THEN {} ELSE {n} \cup Nodes(nd, nd[n].left) \cup Nodes(nd, nd[n].right)

\* ------------------------------------------------------------- operations
\* The call chosen to throw is one the operation makes.
Fires(failAt, r) == failAt = 0 \/ r.thrown

\* empty() that also holds of a container of one element.
emptyOffByOne(q) == queue_size[q] <= 1

\* bool empty() const
empty(q) == queue_size[q] = 0

\* Undefined behaviour: the call reads or releases released storage.  The
\* victim's root may end with any value; the model follows the execution no
\* further.
Undefined(op, q, o, victim) ==
    /\ ub' = TRUE
    /\ \E r \in Addr \cup {Null} : root' = [root EXCEPT ![victim] = r]
    /\ last' = Call(op, q, o, "undefined", 0, 0)
    /\ UNCHANGED <<queue_size, node, alloc, live, dangling>>

\* const T & top() const
Top(q) ==
    /\ Begin(q)
    /\ IF empty(q)
       THEN /\ last' = Call("top", q, q, "container_is_empty", 0, 0)
            /\ UNCHANGED <<root, queue_size, node, alloc, live, dangling, ub>>
       ELSE IF q \in dangling
       THEN Undefined("top", q, q, q)
       ELSE /\ last' = Call("top", q, q, "ok", 0, node[root[q]].data)
            /\ UNCHANGED <<root, queue_size, node, alloc, live, dangling, ub>>

\* void push(const T &e); allocFail: new Node(e) throws.
Push(q, e, allocFail, failAt) ==
    /\ Begin(q)
    /\ Cardinality(alloc) < MaxNodes
    /\ IF allocFail
       THEN /\ failAt = 0
            /\ last' = Call("push", q, q, "bad_alloc", 0, 0)
            /\ UNCHANGED <<root, queue_size, node, alloc, live, dangling, ub>>
       ELSE IF q \in dangling
       THEN failAt = 0 /\ Undefined("push", q, q, q)
       ELSE LET newNode == NewAddr(alloc)
                r == mergeNodes([node EXCEPT ![newNode] = Node(e)],
                                root[q], newNode, 0, failAt)
            IN  /\ Fires(failAt, r)
                /\ IF r.thrown
                   THEN /\ node' = [r.node EXCEPT ![newNode] = Freed]
                        /\ last' = Call("push", q, q, "cmp_thrown", r.calls, 0)
                        /\ UNCHANGED <<root, queue_size, alloc, live, dangling, ub>>
                   ELSE /\ root' = [root EXCEPT ![q] = r.ret]
                        /\ queue_size' = [queue_size EXCEPT ![q] = @ + 1]
                        /\ node' = r.node
                        /\ alloc' = alloc \cup {newNode}
                        /\ last' = Call("push", q, q, "ok", r.calls, e)
                        /\ UNCHANGED <<live, dangling, ub>>

\* pop() whose handler returns normally instead of rethrowing.
PopSwallow(q, failAt) ==
    /\ Begin(q)
    /\ IF empty(q)
       THEN /\ last' = Call("pop", q, q, "container_is_empty", 0, 0)
            /\ UNCHANGED <<root, queue_size, node, alloc, live, dangling, ub>>
       ELSE IF q \in dangling
       THEN failAt = 0 /\ Undefined("pop", q, q, q)
       ELSE LET oldRoot == root[q]
                r == mergeNodes(node, node[oldRoot].left, node[oldRoot].right,
                                0, failAt)
            IN  /\ Fires(failAt, r)
                /\ IF r.thrown
                   THEN /\ root' = [root EXCEPT ![q] = oldRoot]
                        /\ node' = r.node
                        /\ last' = Call("pop", q, q, "ok", r.calls, 0)
                        /\ UNCHANGED <<queue_size, alloc, live, dangling, ub>>
                   ELSE /\ root' = [root EXCEPT ![q] = r.ret]
                        /\ queue_size' = [queue_size EXCEPT ![q] = @ - 1]
                        /\ node' = [r.node EXCEPT ![oldRoot] = Freed]
                        /\ alloc' = alloc \ {oldRoot}
                        /\ last' = Call("pop", q, q, "ok", r.calls, 0)
                        /\ UNCHANGED <<live, dangling, ub>>

\* pop() that does not delete the old root.
PopNoDelete(q, failAt) ==
    /\ Begin(q)
    /\ IF empty(q)
       THEN /\ last' = Call("pop", q, q, "container_is_empty", 0, 0)
            /\ UNCHANGED <<root, queue_size, node, alloc, live, dangling, ub>>
       ELSE IF q \in dangling
       THEN failAt = 0 /\ Undefined("pop", q, q, q)
       ELSE LET oldRoot == root[q]
                r == mergeNodes(node, node[oldRoot].left, node[oldRoot].right,
                                0, failAt)
            IN  /\ Fires(failAt, r)
                /\ IF r.thrown
                   THEN /\ root' = [root EXCEPT ![q] = oldRoot]
                        /\ node' = r.node
                        /\ last' = Call("pop", q, q, "cmp_thrown", r.calls, 0)
                        /\ UNCHANGED <<queue_size, alloc, live, dangling, ub>>
                   ELSE /\ root' = [root EXCEPT ![q] = r.ret]
                        /\ queue_size' = [queue_size EXCEPT ![q] = @ - 1]
                        /\ node' = r.node
                        /\ alloc' = alloc
                        /\ last' = Call("pop", q, q, "ok", r.calls, 0)
                        /\ UNCHANGED <<live, dangling, ub>>

\* void pop()
Pop(q, failAt) ==
    /\ Begin(q)
    /\ IF empty(q)
       THEN /\ last' = Call("pop", q, q, "container_is_empty", 0, 0)
            /\ UNCHANGED <<root, queue_size, node, alloc, live, dangling, ub>>
       ELSE IF q \in dangling
       THEN failAt = 0 /\ Undefined("pop", q, q, q)
       ELSE LET oldRoot == root[q]
                r == mergeNodes(node, node[oldRoot].left, node[oldRoot].right,
                                0, failAt)
            IN  /\ Fires(failAt, r)
                /\ IF r.thrown
                   THEN /\ root' = [root EXCEPT ![q] = oldRoot]
                        /\ node' = r.node
                        /\ last' = Call("pop", q, q, "cmp_thrown", r.calls, 0)
                        /\ UNCHANGED <<queue_size, alloc, live, dangling, ub>>
                   ELSE /\ root' = [root EXCEPT ![q] = r.ret]
                        /\ queue_size' = [queue_size EXCEPT ![q] = @ - 1]
                        /\ node' = [r.node EXCEPT ![oldRoot] = Freed]
                        /\ alloc' = alloc \ {oldRoot}
                        /\ last' = Call("pop", q, q, "ok", r.calls, 0)
                        /\ UNCHANGED <<live, dangling, ub>>

\* queue_size += other.queue_size after other.queue_size = 0.
MergedSizeStale(q, o) == queue_size[q]

\* queue_size += other.queue_size
MergedSize(q, o) == queue_size[q] + queue_size[o]

\* merge() without the test for other being this container.
MergeNoSelfCheck(q, o, failAt) ==
    /\ Begin(q) /\ o \in live
    /\ IF root[q] # Null /\ root[o] # Null /\ {q, o} \cap dangling # {}
       THEN failAt = 0 /\ Undefined("merge", q, o, q)
       ELSE LET original_root == root[q]
                original_size == queue_size[q]
                other_original_root == root[o]
                other_original_size == queue_size[o]
                r == mergeNodes(node, root[q], root[o], 0, failAt)
            IN  /\ Fires(failAt, r)
                /\ IF r.thrown
                   THEN /\ root' = [root EXCEPT ![q] = original_root,
                                                ![o] = other_original_root]
                        /\ queue_size' = [queue_size EXCEPT ![q] = original_size,
                                                            ![o] = other_original_size]
                        /\ node' = r.node
                        /\ last' = Call("merge", q, o, "cmp_thrown", r.calls, 0)
                        /\ UNCHANGED <<alloc, live, dangling, ub>>
                   ELSE /\ root' = [root EXCEPT ![q] = r.ret, ![o] = Null]
                        /\ queue_size' = [queue_size EXCEPT
                                             ![q] = MergedSize(q, o), ![o] = 0]
                        /\ node' = r.node
                        /\ dangling' = IF o \in dangling
                                       THEN (dangling \ {o}) \cup {q} ELSE dangling
                        /\ last' = Call("merge", q, o, "ok", r.calls, 0)
                        /\ UNCHANGED <<alloc, live, ub>>

\* void merge(priority_queue &other)
Merge(q, o, failAt) ==
    /\ Begin(q) /\ o \in live
    /\ IF q = o
       THEN /\ last' = Call("merge", q, o, "ok", 0, 0)
            /\ UNCHANGED <<root, queue_size, node, alloc, live, dangling, ub>>
       ELSE IF root[q] # Null /\ root[o] # Null /\ {q, o} \cap dangling # {}
       THEN failAt = 0 /\ Undefined("merge", q, o, q)
       ELSE LET original_root == root[q]
                original_size == queue_size[q]
                other_original_root == root[o]
                other_original_size == queue_size[o]
                r == mergeNodes(node, root[q], root[o], 0, failAt)
            IN  /\ Fires(failAt, r)
                /\ IF r.thrown
                   THEN /\ root' = [root EXCEPT ![q] = original_root,
                                                ![o] = other_original_root]
                        /\ queue_size' = [queue_size EXCEPT ![q] = original_size,
                                                            ![o] = other_original_size]
                        /\ node' = r.node
                        /\ last' = Call("merge", q, o, "cmp_thrown", r.calls, 0)
                        /\ UNCHANGED <<alloc, live, dangling, ub>>
                   ELSE /\ root' = [root EXCEPT ![q] = r.ret, ![o] = Null]
                        /\ queue_size' = [queue_size EXCEPT
                                             ![q] = MergedSize(q, o), ![o] = 0]
                        /\ node' = r.node
                        /\ dangling' = IF o \in dangling
                                       THEN (dangling \ {o}) \cup {q} ELSE dangling
                        /\ last' = Call("merge", q, o, "ok", r.calls, 0)
                        /\ UNCHANGED <<alloc, live, ub>>

\* priority_queue()
DefaultConstruct(q) ==
    /\ ~ub /\ calls_left > 0 /\ q \notin live
    /\ calls_left' = calls_left - 1
    /\ live' = live \cup {q}
    /\ root' = [root EXCEPT ![q] = Null]
    /\ queue_size' = [queue_size EXCEPT ![q] = 0]
    /\ last' = Call("new", q, q, "ok", 0, 0)
    /\ UNCHANGED <<node, alloc, dangling, ub>>

\* priority_queue(const priority_queue &other); the failAt-th allocation throws.
CopyConstruct(q, o, failAt) ==
    /\ Begin(o) /\ q \notin live
    /\ IF o \in dangling
       THEN failAt = 0 /\ Undefined("copy", q, o, o)
       ELSE /\ MaxNodes - Cardinality(alloc) >= Cardinality(Nodes(node, root[o]))
            /\ LET c == copyTree(node, alloc, root[o], 0, failAt)
               IN  /\ Fires(failAt, c)
                   /\ IF c.thrown
                      THEN /\ node' = c.node
                           /\ alloc' = c.alloc
                           /\ last' = Call("copy", q, o, "bad_alloc", 0, 0)
                           /\ UNCHANGED <<root, queue_size, live, dangling, ub>>
                      ELSE /\ root' = [root EXCEPT ![q] = c.ret]
                           /\ queue_size' = [queue_size EXCEPT ![q] = queue_size[o]]
                           /\ node' = c.node
                           /\ alloc' = c.alloc
                           /\ live' = live \cup {q}
                           /\ last' = Call("copy", q, o, "ok", 0, 0)
                           /\ UNCHANGED <<dangling, ub>>

\* priority_queue &operator=(const priority_queue &other)
Assign(q, o, failAt) ==
    /\ Begin(q) /\ o \in live
    /\ IF q = o
       THEN /\ last' = Call("assign", q, o, "ok", 0, 0)
            /\ UNCHANGED <<root, queue_size, node, alloc, live, dangling, ub>>
       ELSE IF q \in dangling
       THEN failAt = 0 /\ Undefined("assign", q, o, q)
       ELSE IF o \in dangling
       THEN failAt = 0 /\ Undefined("assign", q, o, q)
       ELSE LET d == deleteTree(node, alloc, root[q])
                c == copyTree(d.node, d.alloc, root[o], 0, failAt)
            IN  /\ MaxNodes - Cardinality(d.alloc) >= Cardinality(Nodes(node, root[o]))
                /\ Fires(failAt, c)
                /\ node' = c.node
                /\ alloc' = c.alloc
                /\ IF c.thrown
                      THEN /\ dangling' = IF root[q] # Null
                                          THEN dangling \cup {q} ELSE dangling
                           /\ last' = Call("assign", q, o, "bad_alloc", 0, 0)
                           /\ UNCHANGED <<root, queue_size, live, ub>>
                      ELSE /\ root' = [root EXCEPT ![q] = c.ret]
                           /\ queue_size' = [queue_size EXCEPT ![q] = queue_size[o]]
                           /\ last' = Call("assign", q, o, "ok", 0, 0)
                           /\ UNCHANGED <<live, dangling, ub>>

\* ~priority_queue()
Destroy(q) ==
    /\ Begin(q)
    /\ IF q \in dangling
       THEN Undefined("delete", q, q, q)
       ELSE LET d == deleteTree(node, alloc, root[q])
            IN  /\ node' = d.node
                /\ alloc' = d.alloc
                /\ live' = live \ {q}
                /\ root' = [root EXCEPT ![q] = Null]
                /\ queue_size' = [queue_size EXCEPT ![q] = 0]
                /\ last' = Call("delete", q, q, "ok", 0, 0)
                /\ UNCHANGED <<dangling, ub>>

\* Two default-constructed containers.
Init ==
    /\ root = [q \in Queues |-> Null]
    /\ queue_size = [q \in Queues |-> 0]
    /\ node = [n \in Addr |-> Freed]
    /\ alloc = {}
    /\ calls_left = MaxCallsTwo
    /\ live = Queues
    /\ dangling = {}
    /\ ub = FALSE
    /\ last = Call("new", "a", "a", "ok", 0, 0)

\* One default-constructed container.
InitOne ==
    /\ root = [q \in Queues |-> Null]
    /\ queue_size = [q \in Queues |-> 0]
    /\ node = [n \in Addr |-> Freed]
    /\ alloc = {}
    /\ calls_left = MaxCalls
    /\ live = {"a"}
    /\ dangling = {}
    /\ ub = FALSE
    /\ last = Call("new", "a", "a", "ok", 0, 0)

\* Every call, with a comparator that may throw and allocations that may fail.
Next ==
    \/ \E q \in Queues : Top(q)
    \/ \E q \in Queues, e \in Keys, allocFail \in BOOLEAN, failAt \in FailAt :
          Push(q, e, allocFail, failAt)
    \/ \E q \in Queues, failAt \in FailAt : Pop(q, failAt)
    \/ \E q \in Queues, o \in Queues, failAt \in FailAt : Merge(q, o, failAt)
    \/ \E q \in Queues : DefaultConstruct(q)
    \/ \E q \in Queues, o \in Queues, failAt \in FailAt : CopyConstruct(q, o, failAt)
    \/ \E q \in Queues, o \in Queues, failAt \in FailAt : Assign(q, o, failAt)
    \/ \E q \in Queues : Destroy(q)

\* Every call, with a comparator that may throw and allocations that succeed.
NextNoAllocFail ==
    \/ \E q \in Queues : Top(q)
    \/ \E q \in Queues, e \in Keys, failAt \in FailAt : Push(q, e, FALSE, failAt)
    \/ \E q \in Queues, failAt \in FailAt : Pop(q, failAt)
    \/ \E q \in Queues, o \in Queues, failAt \in FailAt : Merge(q, o, failAt)
    \/ \E q \in Queues : DefaultConstruct(q)
    \/ \E q \in Queues, o \in Queues : CopyConstruct(q, o, 0)
    \/ \E q \in Queues, o \in Queues : Assign(q, o, 0)
    \/ \E q \in Queues : Destroy(q)

\* top, push and pop on one container, with a comparator that may throw.
NextOne ==
    \/ \E q \in Queues : Top(q)
    \/ \E q \in Queues, e \in Keys, failAt \in FailAt : Push(q, e, FALSE, failAt)
    \/ \E q \in Queues, failAt \in FailAt : Pop(q, failAt)

\* top, push, pop and merge on two containers, with a comparator that may
\* throw.
NextHeap ==
    \/ \E q \in Queues : Top(q)
    \/ \E q \in Queues, e \in Keys, failAt \in FailAt : Push(q, e, FALSE, failAt)
    \/ \E q \in Queues, failAt \in FailAt : Pop(q, failAt)
    \/ \E q \in Queues, o \in Queues, failAt \in FailAt : Merge(q, o, failAt)

\* The elements pushed in runs on one container that merge it with itself.
SelfKeys == 1..(MaxKey + 1)

\* top, push, pop and merge with itself on one container.
NextSelf ==
    \/ \E q \in Queues : Top(q)
    \/ \E q \in Queues, e \in SelfKeys, failAt \in FailAt : Push(q, e, FALSE, failAt)
    \/ \E q \in Queues, failAt \in FailAt : Pop(q, failAt)
    \/ \E q \in Queues, failAt \in FailAt : Merge(q, q, failAt)

Spec == Init /\ [][Next]_vars
SpecSelf == InitOne /\ [][NextSelf]_vars
SpecHeap == Init /\ [][NextHeap]_vars
SpecNoAllocFail == Init /\ [][NextNoAllocFail]_vars
SpecOne == InitOne /\ [][NextOne]_vars
\* -------------------------------------------------------------- properties
\* The containers' members and the free store.
Store == <<root, queue_size, node, alloc>>

\* C1: a push that ends with the comparator throwing, at whatever depth of
\* mergeNodes, leaves root, size and every node as they were, and the node
\* allocated for the element is released.
C1_PushThrowRestores ==
    [][(last'.op = "push" /\ last'.res = "cmp_thrown") => UNCHANGED Store]_vars

\* A push whose second comparator call, one frame down, threw.
C1_Witness == last.op = "push" /\ last.res = "cmp_thrown" /\ last.calls = 2

\* C2: a pop that ends with the comparator throwing leaves the root, the size
\* and every node as they were; the old root is not released.
C2_PopThrowRestores ==
    [][(last'.op = "pop" /\ last'.res = "cmp_thrown")
          => /\ UNCHANGED Store
             /\ root[last'.q] \in alloc']_vars

\* A pop whose second comparator call, one frame down, threw.
C2_Witness == last.op = "pop" /\ last.res = "cmp_thrown" /\ last.calls = 2

\* C3: a merge of two distinct containers that ends with the comparator
\* throwing leaves both roots, both sizes and every node as they were.
C3_MergeThrowRestores ==
    [][(last'.op = "merge" /\ last'.res = "cmp_thrown")
          => /\ last'.q # last'.o
             /\ UNCHANGED Store]_vars

\* A merge of two non-empty containers whose second comparator call threw.
C3_Witness ==
    /\ last.op = "merge" /\ last.res = "cmp_thrown" /\ last.calls = 2
    /\ queue_size[last.q] > 0 /\ queue_size[last.o] > 0

\* C4: on a container of size 0, top and pop end with container_is_empty and
\* change nothing; a push of x onto the empty container followed by top
\* returns x.
C4_EmptyRaises ==
    [][/\ (last'.op \in {"top", "pop"} /\ queue_size[last'.q] = 0)
             => (last'.res = "container_is_empty" /\ UNCHANGED Store)
       /\ (/\ last.op = "push" /\ last.res = "ok" /\ queue_size[last.q] = 1
           /\ last'.op = "top" /\ last'.q = last.q)
             => (last'.res = "ok" /\ last'.val = last.val)]_vars

\* A pop on a container of size 0 that ended with container_is_empty.
C4_Witness ==
    /\ last.op = "pop" /\ last.res = "container_is_empty"
    /\ queue_size[last.q] = 0 /\ root[last.q] = Null
\* The successive top values of the tree at r when it is popped until empty.
RECURSIVE Drain(_, _)
Drain(nd, r) ==
    IF r = Null THEN <<>>
    ELSE LET m == mergeNodes(nd, nd[r].left, nd[r].right, 0, 0)
         IN  <<nd[r].data>> \o Drain(m.node, m.ret)

\* The multiset of the elements of a sequence.
BagOf(seq) == [k \in Keys |-> Cardinality({i \in 1..Len(seq) : seq[i] = k})]

\* The multiset of the elements stored in the tree at r.
TreeBag(nd, r) == [k \in Keys |-> Cardinality({n \in Nodes(nd, r) : nd[n].data = k})]

NonIncreasing(seq) == \A i \in 1..(Len(seq) - 1) : seq[i] >= seq[i + 1]

\* The merge of two non-increasing sequences.
RECURSIVE SortedMerge(_, _)
SortedMerge(s, t) ==
    IF s = <<>> THEN t
    ELSE IF t = <<>> THEN s
    ELSE IF s[1] >= t[1] THEN <<s[1]>> \o SortedMerge(Tail(s), t)
    ELSE <<t[1]>> \o SortedMerge(s, Tail(t))

\* C5: top returns an element that none in the container exceeds.  After a
\* successful push, pop or merge, popping the container until empty yields
\* the elements held, each as often as it is held, in non-increasing order:
\* what it yielded before plus the element pushed, minus the top popped, plus
\* what the other container yielded.  Every other call, and every call on
\* another container, leaves the tree as it was.
C5_DrainSorted ==
    [][LET q == last'.q
           o == last'.o
           changes == last'.op \in {"push", "pop", "merge"} /\ last'.res = "ok"
       IN  /\ (last'.op = "top" /\ last'.res = "ok") =>
                 \A n \in Nodes(node, root[q]) : last'.val >= node[n].data
           /\ changes =>
                 \A before \in {Drain(node, root[q])},
                    after \in {Drain(node', root'[q])} :
                    /\ NonIncreasing(after)
                    /\ Len(after) = queue_size'[q]
                    /\ BagOf(after) = TreeBag(node', root'[q])
                    /\ root'[q] # Null =>
                          \A n \in Nodes(node', root'[q]) :
                              node'[root'[q]].data >= node'[n].data
                    /\ last'.op = "push" =>
                          after = SortedMerge(before, <<last'.val>>)
                    /\ last'.op = "pop" => after = Tail(before)
                    /\ (last'.op = "merge" /\ q # o) =>
                          \A other \in {Drain(node, root[o])} :
                             BagOf(after) = [k \in Keys |-> BagOf(before)[k]
                                                           + BagOf(other)[k]]
                    /\ (last'.op = "merge" /\ q = o) => after = before
           /\ ~changes => UNCHANGED <<root, node>>
           /\ \A p \in Queues \ {q, o} :
                 /\ root'[p] = root[p]
                 /\ \A n \in Nodes(node, root[p]) : node'[n] = node[n]]_vars

\* A pop has left a container that holds an element twice and another once.
C5_Witness ==
    /\ last.op = "pop" /\ last.res = "ok"
    /\ Drain(node, root[last.q]) = <<2, 2, 1>>

\* C6: a successful merge of two distinct containers leaves the other one
\* empty and alive, makes the size the sum of the two sizes, and makes the
\* successive tops the merge of the successive tops of the two.
C6_MergeUnion ==
    [][(last'.op = "merge" /\ last'.res = "ok" /\ last'.q # last'.o) =>
          LET q == last'.q
              o == last'.o
          IN  /\ root'[o] = Null /\ queue_size'[o] = 0 /\ o \in live'
              /\ queue_size'[q] = queue_size[q] + queue_size[o]
              /\ Drain(node', root'[q]) =
                    SortedMerge(Drain(node, root[q]), Drain(node, root[o]))
              /\ Len(Drain(node', root'[q])) = queue_size'[q]]_vars

\* A merge has joined a container of two elements and one of one or more.
C6_Witness ==
    /\ last.op = "merge" /\ last.res = "ok" /\ last.q # last.o
    /\ last.calls >= 1 /\ queue_size[last.q] >= 3 /\ queue_size[last.o] = 0

\* The Node objects of container q: those reached from its root.
NodesOf(q) == Nodes(node, root[q]) \cap alloc

\* C7: in every state, size is the number of nodes reached from root, and a
\* container is either empty (size 0, no root) or non-empty (size > 0, a
\* root).
C7_SizeConsistent ==
    ~ub => \A q \in live :
              /\ queue_size[q] = Cardinality(NodesOf(q))
              /\ queue_size[q] = 0 <=> root[q] = Null

\* C8: an assignment that ends with an allocation failing leaves the
\* receiver's root, size and nodes as they were, its tree not released.
C8_AssignFailKeeps ==
    [][(last'.op = "assign" /\ last'.res = "bad_alloc") =>
          /\ root'[last'.q] = root[last'.q]
          /\ queue_size'[last'.q] = queue_size[last'.q]
          /\ \A n \in Nodes(node, root[last'.q]) :
                n \in alloc' /\ node'[n] = node[n]]_vars

\* The nodes owned by the containers.
Owned == UNION {Nodes(node, root[q]) : q \in live \ dangling}

\* C9: after a copy construction or assignment that ended with an allocation
\* failing, no allocated node is without an owner.
C9_NoLeak ==
    (last.op \in {"copy", "assign"} /\ last.res = "bad_alloc") => alloc \subseteq Owned

\* The trees at x and y have the same shape, with equal data and dist.
RECURSIVE Iso(_, _, _)
Iso(nd, x, y) ==
    IF x = Null \/ y = Null THEN x = y
    ELSE /\ nd[x].data = nd[y].data /\ nd[x].dist = nd[y].dist
         /\ Iso(nd, nd[x].left, nd[y].left)
         /\ Iso(nd, nd[x].right, nd[y].right)

\* A successful copy construction or assignment gives the receiver a tree of
\* its own that is isomorphic to the source's and yields the same tops.
CopyIsIndependent ==
    (last'.op \in {"copy", "assign"} /\ last'.res = "ok" /\ last'.q # last'.o) =>
        /\ Iso(node', root'[last'.q], root'[last'.o])
        /\ Nodes(node', root'[last'.q]) \cap Nodes(node', root'[last'.o]) = {}
        /\ Drain(node', root'[last'.q]) = Drain(node', root'[last'.o])
        /\ queue_size'[last'.q] = queue_size'[last'.o]

\* A push, pop or merge leaves every container it was not called with as it
\* was.
OthersUntouched ==
    (last'.op \in {"push", "pop", "merge"} /\ last'.res # "undefined") =>
        \A p \in live \ {last'.q, last'.o} :
            /\ root'[p] = root[p] /\ queue_size'[p] = queue_size[p]
            /\ \A n \in Nodes(node, root[p]) : node'[n] = node[n] /\ n \in alloc'

\* No node is reached from the roots of two containers.
NoSharedNode ==
    \A p \in live, q \in live :
        p # q => Nodes(node, root[p]) \cap Nodes(node, root[q]) = {}

\* C10: a copy is isomorphic to its source and shares no node with it, calls
\* on one container leave the others as they were, and in every state no
\* node is reached from the roots of two containers.
C10_CopiesIndependent ==
    [][/\ CopyIsIndependent
       /\ OthersUntouched
       /\ ~ub' => NoSharedNode']_vars

\* The children of node n.
Children(nd, n) == {nd[n].left, nd[n].right} \ {Null}

\* C11: in every state, every node reached from a container's root has a
\* left child whose dist is at least that of its right child (-1 for no
\* child), and a dist one more than that of its right child.
C11_LeftistDist ==
    \A q \in live : \A n \in Nodes(node, root[q]) :
        /\ getDist(node, node[n].left) >= getDist(node, node[n].right)
        /\ node[n].dist = getDist(node, node[n].right) + 1
        /\ node[n].dist = 0 <=> node[n].right = Null

\* A container holds a node of dist 1 after a call whose comparator threw.
C11_Witness ==
    /\ last.res = "cmp_thrown"
    /\ \E n \in Nodes(node, root[last.q]) : node[n].dist = 1

\* C12: in every state, no node reached from a container's root is less
\* than one of its children, so no node of the tree is greater than the root.
C12_HeapOrder ==
    \A q \in live :
        /\ \A n \in Nodes(node, root[q]) : \A c \in Children(node, n) :
              ~cmp(node[n].data, node[c].data)
        /\ \A n \in Nodes(node, root[q]) : ~cmp(node[root[q]].data, node[n].data)

\* A pop whose comparator threw has left a tree of two levels below the root
\* holding different elements.
C12_Witness ==
    /\ last.op = "pop" /\ last.res = "cmp_thrown"
    /\ \E n \in Nodes(node, root[last.q]) : \E c \in Children(node, n) :
          n # root[last.q] /\ node[c].data < node[root[last.q]].data

\* The call ended with the comparator's failure at its k-th call.
Surfaced(k) == last'.res = "cmp_thrown" /\ last'.calls = k

\* C13: container_is_empty ends only a top or a pop, and only on a container
\* of size 0; a comparator failure ends only a push, pop or merge that called
\* the comparator; and every push, pop or merge in which one of the
\* comparator calls it makes throws ends with that failure, whichever call
\* it is.
C13_ErrorsSurface ==
    [][/\ last'.res = "container_is_empty" =>
             last'.op \in {"top", "pop"} /\ queue_size[last'.q] = 0
       /\ last'.op \in {"push", "merge"} => last'.res \in {"ok", "cmp_thrown"}
       /\ last'.op = "top" => last'.res \in {"ok", "container_is_empty"}
       /\ last'.res = "cmp_thrown" =>
             last'.op \in {"push", "pop", "merge"} /\ last'.calls >= 1
       /\ \A k \in 1..last'.calls :
             /\ (last'.op = "push" /\ \E e \in Keys : Push(last'.q, e, FALSE, k))
                   => Surfaced(k)
             /\ (last'.op = "pop" /\ Pop(last'.q, k)) => Surfaced(k)
             /\ (last'.op = "merge" /\ Merge(last'.q, last'.o, k)) => Surfaced(k)]_vars

\* A merge of two containers ended with the failure of its first comparator
\* call.
C13_Witness ==
    /\ last.op = "merge" /\ last.res = "cmp_thrown" /\ last.calls = 1
    /\ last.q # last.o

\* C14: a merge of a container with itself returns normally without calling
\* the comparator and leaves root, size and every node as they were, so the
\* container yields the same tops as before.
C14_SelfMergeNoOp ==
    [][(last'.op = "merge" /\ last'.q = last'.o) =>
          /\ last'.res = "ok" /\ last'.calls = 0
          /\ UNCHANGED Store
          /\ queue_size'[last'.q] = Cardinality(Nodes(node', root'[last'.q]))
          /\ Drain(node', root'[last'.q]) = Drain(node, root[last'.q])]_vars

\* A container holding 1, 2 and 3 has been merged with itself.
C14_Witness ==
    /\ last.op = "merge" /\ last.q = last.o /\ last.res = "ok"
    /\ queue_size[last.q] = 3
    /\ Drain(node, root[last.q]) = <<3, 2, 1>>

\* The pairs of subtrees of this state that have no node in common: what a
\* call of mergeNodes, outermost or recursive, can be handed.
DisjointTrees ==
    {p \in alloc \X alloc : Nodes(node, p[1]) \cap Nodes(node, p[2]) = {}}

\* The pairs of trees that pop and merge hand to mergeNodes in this state.
MergeInputs ==
    {<<root[p[1]], root[p[2]]>> : p \in {x \in live \X live : x[1] # x[2]}}
      \cup {<<node[root[q]].left, node[root[q]].right>> :
               q \in {p \in live : root[p] # Null}}

\* C15: in a call of mergeNodes on two trees, the store at each comparator
\* call is the store the call began with, so every write follows the last
\* comparator call, and a comparator failure at any depth leaves every node
\* as it was; the call that runs to its end does write.
C15_WritesAfterCompares ==
    \A p \in MergeInputs \cup DisjointTrees :
        \A full \in {mergeNodes(node, p[1], p[2], 0, 0)} :
            /\ ~full.thrown
            /\ full.calls >= 1 => full.node # node
            /\ \A k \in 1..full.calls :
                  \A r \in {mergeNodes(node, p[1], p[2], 0, k)} :
                      r.thrown /\ r.calls = k /\ r.node = node

\* The children of a root are trees whose merge makes two comparator calls,
\* the second in an inner frame, and writes a node in each frame.
C15_Witness ==
    \E q \in live :
        /\ root[q] # Null
        /\ \A full \in {mergeNodes(node, node[root[q]].left, node[root[q]].right, 0, 0)} :
              /\ full.calls = 2
              /\ Cardinality({n \in Addr : full.node[n] # node[n]}) >= 2

\* The root that mergeNodes returns for two trees that are not empty: the
\* first unless it is less than the second.
Winner(nd, a, b) == IF ~cmp(nd[a].data, nd[b].data) THEN a ELSE b

\* C16: mergeNodes on two trees that are not empty returns the first operand
\* unless the comparator says it is less than the second, so of two equal
\* keys the first operand becomes the root; the call that push makes, on the
\* root and the new node, returns the root unless the root is less than the
\* element pushed, and so returns it when the element equals the top.
C16_FirstWinsTies ==
    /\ \A p \in DisjointTrees :
          mergeNodes(node, p[1], p[2], 0, 0).ret = Winner(node, p[1], p[2])
    /\ Cardinality(alloc) < MaxNodes =>
          \A q \in {p \in live : root[p] # Null}, e \in Keys :
              \A newNode \in {NewAddr(alloc)} :
                  mergeNodes([node EXCEPT ![newNode] = Node(e)],
                             root[q], newNode, 0, 0).ret
                     = IF node[root[q]].data >= e THEN root[q] ELSE newNode

\* A push of an element equal to the top of a container of two or more
\* elements has returned.
C16_Witness ==
    /\ last.op = "push" /\ last.res = "ok" /\ last.calls >= 1
    /\ queue_size[last.q] >= 3
    /\ node[root[last.q]].data = last.val

\* The reference algorithm for mergeNodes: the winner is the first operand
\* unless it is less than the second; the winner's right subtree, as first
\* operand, is merged with the loser, as second operand, and becomes the
\* winner's right child; then the swap that restores the leftist property,
\* then dist.
RECURSIVE ReferenceMerge(_, _, _)
ReferenceMerge(nd, a, b) ==
    IF a = Null THEN [node |-> nd, ret |-> b]
    ELSE IF b = Null THEN [node |-> nd, ret |-> a]
    ELSE LET aLessB == cmp(nd[a].data, nd[b].data)
             winner == IF aLessB THEN b ELSE a
             loser == IF aLessB THEN a ELSE b
             m == ReferenceMerge(nd, nd[winner].right, loser)
             n1 == [m.node EXCEPT ![winner].right = m.ret]
             n2 == IF getDist(n1, n1[winner].left) < getDist(n1, n1[winner].right)
                   THEN [n1 EXCEPT ![winner].left = n1[winner].right,
                                   ![winner].right = n1[winner].left]
                   ELSE n1
         IN  [node |-> [n2 EXCEPT ![winner].dist = getDist(n2, n2[winner].right) + 1],
              ret |-> winner]

\* C17: for every pair of trees, mergeNodes returns the tree that the
\* reference algorithm returns: the same root, and the same node with the
\* same dist in every position.
C17_RefinesReference ==
    \A p \in MergeInputs \cup DisjointTrees :
        \A code \in {mergeNodes(node, p[1], p[2], 0, 0)},
           ref \in {ReferenceMerge(node, p[1], p[2])} :
            code.ret = ref.ret /\ code.node = ref.node

\* No element of the tree at a equals an element of the tree at b.
NoCrossTie(a, b) ==
    \A x \in Nodes(node, a), y \in Nodes(node, b) : node[x].data # node[y].data

\* C17, up to the order of equal elements: for every pair of trees,
\* mergeNodes returns the root that
\* the reference algorithm returns, over the same nodes; and when no element
\* of one tree equals an element of the other, it returns the same tree, the
\* same node with the same dist in every position.
C17_RefinesReferenceNoTies ==
    \A p \in MergeInputs \cup DisjointTrees :
        \A code \in {mergeNodes(node, p[1], p[2], 0, 0)},
           ref \in {ReferenceMerge(node, p[1], p[2])} :
            /\ code.ret = ref.ret
            /\ Nodes(code.node, code.ret) = Nodes(ref.node, ref.ret)
            /\ NoCrossTie(p[1], p[2]) => code.node = ref.node

\* Two trees with no element in common, the second holding an element
\* twice, whose merge makes the second operand the root in both of its
\* frames.
C17_Witness ==
    \E p \in DisjointTrees :
        /\ NoCrossTie(p[1], p[2])
        /\ cmp(node[p[1]].data, node[p[2]].data)
        /\ node[p[2]].right # Null
        /\ node[node[p[2]].right].data = node[p[2]].data
        /\ mergeNodes(node, p[1], p[2], 0, 0).calls = 2

\* The number of nodes on the right spine of the tree at n.
RECURSIVE Spine(_, _)
Spine(nd, n) == IF n = Null THEN 0 ELSE 1 + Spine(nd, nd[n].right)

\* The sum of the right spines of the two trees that the call of this step
\* hands to mergeNodes: the root and the new node (push), the children of
\* the root (pop), the two roots (merge).
SpineSum ==
    LET q == last'.q
        o == last'.o
    IN  IF last'.op = "push" THEN Spine(node, root[q]) + 1
        ELSE IF last'.op = "pop"
        THEN Spine(node, node[root[q]].left) + Spine(node, node[root[q]].right)
        ELSE Spine(node, root[q]) + Spine(node, root[o])

\* One of the two trees that the call of this step hands to mergeNodes is
\* empty.
EmptyOperand ==
    LET q == last'.q
        o == last'.o
    IN  IF last'.op = "push" THEN root[q] = Null
        ELSE IF last'.op = "pop"
        THEN node[root[q]].left = Null \/ node[root[q]].right = Null
        ELSE root[q] = Null \/ root[o] = Null

\* C18: every call of mergeNodes returns or throws after at most as many
\* comparator calls, one in each frame that recurses, as the two right
\* spines have nodes; with an empty operand it makes none, so a push onto an
\* empty container, a merge with an empty container and a pop of a root with
\* fewer than two children do not end with a comparator failure.
C18_BoundedBySpines ==
    [][((\/ last'.op = "push"
         \/ last'.op = "pop" /\ queue_size[last'.q] > 0
         \/ last'.op = "merge" /\ last'.q # last'.o)
        /\ last'.res \in {"ok", "cmp_thrown"}) =>
          /\ last'.calls <= SpineSum
          /\ EmptyOperand => (last'.calls = 0 /\ last'.res = "ok")
          /\ ~EmptyOperand => last'.calls >= 1]_vars

\* A push onto a container of three or more elements has returned after two
\* comparator calls.
C18_Witness ==
    /\ last.op = "push" /\ last.res = "ok" /\ last.calls = 2
    /\ queue_size[last.q] >= 4

\* C19: a successful merge of two distinct containers allocates and releases
\* nothing, and the nodes reached from the receiver's root afterwards are
\* those reached from the two roots before, each with the data it had; a
\* successful push allocates one node, which holds the element and joins the
\* tree; a successful pop releases one node, the old root, which leaves the
\* tree.
C19_NodesConserved ==
    [][LET q == last'.q
           o == last'.o
           before == Nodes(node, root[q])
           after == Nodes(node', root'[q])
       IN  /\ (last'.op = "merge" /\ last'.res = "ok" /\ q # o) =>
                 /\ alloc' = alloc
                 /\ after = before \cup Nodes(node, root[o])
                 /\ \A n \in after : node'[n].data = node[n].data
           /\ (last'.op = "push" /\ last'.res = "ok") =>
                 \E n \in Addr \ alloc :
                     /\ alloc' = alloc \cup {n}
                     /\ after = before \cup {n}
                     /\ node'[n].data = last'.val
                     /\ \A m \in before : node'[m].data = node[m].data
           /\ (last'.op = "pop" /\ last'.res = "ok") =>
                 /\ root[q] \in alloc
                 /\ alloc' = alloc \ {root[q]}
                 /\ after = before \ {root[q]}
                 /\ \A m \in after : node'[m].data = node[m].data]_vars

\* A merge of a container of two or more elements with one of two or more
\* has returned.
C19_Witness ==
    /\ last.op = "merge" /\ last.res = "ok" /\ last.q # last.o
    /\ last.calls >= 2
    /\ queue_size[last.q] >= 4 /\ alloc = Nodes(node, root[last.q])

\* C20: in every state, every node reached from the root of a live container
\* is allocated and not released, and no call has read or released storage
\* that was released before, so that destroying the container releases each
\* of its nodes once.
C20_MemorySafe ==
    /\ ~ub
    /\ \A q \in live : Nodes(node, root[q]) \subseteq alloc
====
